---- MODULE Spec2Model ----
(***************************************************************************)
(* Model of src/main.py: the month-window planner and the rate-limit-aware *)
(* fetcher (get_full_history / get_history / wait_server_minute_rollover), *)
(* the three INSERT OR REPLACE handoffs and main().                        *)
(*                                                                         *)
(* Representation choices:                                                 *)
(*  - a str is the tuple of its characters, so that strptime and float are *)
(*    parsers that can fail or map two texts to one value;                 *)
(*  - a datetime is [y, m, d]; the time of day is carried unchanged by     *)
(*    relativedelta and never decides a comparison made here;              *)
(*  - datetime.timestamp() is the number of seconds since 1 January 1970;  *)
(*    the code's millisecond value is that number times 1000, which does   *)
(*    not fit TLC's 32-bit integers, so startTime/endTime are in seconds.  *)
(***************************************************************************)
EXTENDS Integers, Sequences, FiniteSets, TLC

(* ------------------------------ bounds --------------------------------- *)
MaxInterval == 3
NumMinutes == 3
MaxRuns == 2
MaxBatch == 2

(* ------------------------- text and characters ------------------------- *)
DigitChars == <<"0", "1", "2", "3", "4", "5", "6", "7", "8", "9">>

IsDigit(c) == \E i \in 1..10 : DigitChars[i] = c

DigitVal(c) == (CHOOSE i \in 1..10 : DigitChars[i] = c) - 1

\* f"{year}-01" at main.py:372
FormatDefaultFromDate(y) ==
    << DigitChars[((y \div 1000) % 10) + 1], DigitChars[((y \div 100) % 10) + 1],
       DigitChars[((y \div 10) % 10) + 1], DigitChars[(y % 10) + 1], "-", "0", "1" >>

\* the text "YYYY-MM" of a year and month, the documented from_date format
FormatYM(y, m) ==
    << DigitChars[((y \div 1000) % 10) + 1], DigitChars[((y \div 100) % 10) + 1],
       DigitChars[((y \div 10) % 10) + 1], DigitChars[(y % 10) + 1], "-",
       DigitChars[(m \div 10) + 1], DigitChars[(m % 10) + 1] >>

(* ------------------------------ datetimes ------------------------------ *)
IsLeap(y) == (y % 4 = 0 /\ y % 100 # 0) \/ y % 400 = 0

DaysInMonth(y, m) ==
    IF m = 2 THEN (IF IsLeap(y) THEN 29 ELSE 28)
    ELSE IF m \in {4, 6, 9, 11} THEN 30 ELSE 31

DateTime(y, m, d) == [y |-> y, m |-> m, d |-> d]

RECURSIVE DaysBeforeMonth(_, _)
DaysBeforeMonth(y, m) ==
    IF m = 1 THEN 0 ELSE DaysBeforeMonth(y, m - 1) + DaysInMonth(y, m - 1)

RECURSIVE DaysBeforeYear(_)
DaysBeforeYear(y) ==
    IF y <= 1970 THEN 0
    ELSE DaysBeforeYear(y - 1) + (IF IsLeap(y - 1) THEN 366 ELSE 365)

\* datetime.timestamp(), in seconds since 1 January 1970
Timestamp(dt) ==
    (DaysBeforeYear(dt.y) + DaysBeforeMonth(dt.y, dt.m) + (dt.d - 1)) * 86400

\* dt + relativedelta(months=k): the month moves, the day is clamped
AddMonths(dt, k) ==
    LET idx == dt.y * 12 + (dt.m - 1) + k
        ny  == idx \div 12
        nm  == (idx % 12) + 1
        dim == DaysInMonth(ny, nm)
    IN  DateTime(ny, nm, IF dt.d > dim THEN dim ELSE dt.d)

Before(a, b) == Timestamp(a) < Timestamp(b)

(* ------------------------ strptime(s, "%Y-%m") ------------------------- *)
\* The regex of _strptime: (\d\d\d\d)-(1[0-2]|0[1-9]|[1-9]) and nothing left.
StrptimeLenient(s) ==
    IF Len(s) >= 4 /\ \A i \in 1..4 : IsDigit(s[i])
    THEN [ok |-> TRUE,
          dt |-> DateTime(DigitVal(s[1]) * 1000 + DigitVal(s[2]) * 100
                          + DigitVal(s[3]) * 10 + DigitVal(s[4]), 1, 1)]
    ELSE [ok |-> FALSE, dt |-> DateTime(0, 0, 0)]

Strptime(s) ==
    LET bad == [ok |-> FALSE, dt |-> DateTime(0, 0, 0)]
        year == DigitVal(s[1]) * 1000 + DigitVal(s[2]) * 100
                + DigitVal(s[3]) * 10 + DigitVal(s[4])
    IN  IF Len(s) < 6 THEN bad
        ELSE IF ~(\A i \in 1..4 : IsDigit(s[i])) \/ s[5] # "-" THEN bad
        ELSE IF year = 0 THEN bad
        ELSE IF Len(s) = 7 /\ s[6] = "1" /\ s[7] \in {"0", "1", "2"}
             THEN [ok |-> TRUE, dt |-> DateTime(year, 10 + DigitVal(s[7]), 1)]
        ELSE IF Len(s) = 7 /\ s[6] = "0" /\ IsDigit(s[7]) /\ s[7] # "0"
             THEN [ok |-> TRUE, dt |-> DateTime(year, DigitVal(s[7]), 1)]
        ELSE IF Len(s) = 6 /\ IsDigit(s[6]) /\ s[6] # "0"
             THEN [ok |-> TRUE, dt |-> DateTime(year, DigitVal(s[6]), 1)]
        ELSE bad

(* ----------------------------- the planner ----------------------------- *)
\* range(0, stop, step) for step > 0
RECURSIVE RangeFrom(_, _, _)
RangeFrom(m, stop, step) ==
    IF m >= stop THEN << >> ELSE <<m>> \o RangeFrom(m + step, stop, step)

Range(stop, step) == RangeFrom(0, stop, step)

\* date_intervals of get_full_history (main.py:58-62)
DateIntervals(start_time, end_time, interval) ==
    LET steps == Range(end_time.m - start_time.m + 1, interval)
    IN  [i \in 1..Len(steps) |-> AddMonths(start_time, steps[i])]
        \o << AddMonths(end_time, 1) >>

\* zip(date_intervals[:-1], date_intervals[1:]) (main.py:65)
WindowsDropLast(di) ==
    [i \in 1..(Len(di) - 2) |-> [start |-> di[i], end |-> di[i + 1]]]

Windows(di) ==
    [i \in 1..(Len(di) - 1) |-> [start |-> di[i], end |-> di[i + 1]]]

(* --------------------------- provider data ----------------------------- *)
NoArg == << >>
None == [shape |-> "none"]
NoError == [cls |-> "none", status_code |-> 0, serial |-> 0]

\* three records per kind: two versions of one identity key, and a second key
W1a == [orderNo |-> "W1", amount |-> <<"1", "0", "0", ".", "0", "0">>, status |-> "Processing"]
W1b == [orderNo |-> "W1", amount |-> <<"9", "9", ".", "5", "0">>, status |-> "Successful"]
W2  == [orderNo |-> "W2", amount |-> <<"7">>, status |-> "Successful"]
T1a == [quoteId |-> "Q1", fromAmount |-> <<"2", ".", "5">>, orderStatus |-> "PROCESS"]
T1b == [quoteId |-> "Q1", fromAmount |-> <<"2", ".", "5", "0">>, orderStatus |-> "SUCCESS"]
T2  == [quoteId |-> "Q2", fromAmount |-> <<"3">>, orderStatus |-> "SUCCESS"]
D1a == [id |-> "D1", amount |-> <<"0", ".", "5">>, status |-> 0]
D1b == [id |-> "D1", amount |-> <<"0", ".", "5">>, status |-> 1]
D2  == [id |-> "D2", amount |-> <<"4", "0">>, status |-> 1]

Dict(key, items) == [shape |-> "dict", key |-> key, items |-> items]
EmptyDict == [shape |-> "dict", key |-> "", items |-> << >>]
List(items) == [shape |-> "list", key |-> "", items |-> items]

\* what each retrieval operation may answer for one window
ProviderResponses(g) ==
    CASE g = "get_fiat_withdraw_history" ->
             { EmptyDict, Dict("data", <<W1a>>), Dict("data", <<W1b, W2>>) }
      [] g = "get_convert_trade_history" ->
             { Dict("list", << >>), Dict("list", <<T1a, T2, T1b>>) }
      [] g = "get_deposit_history" ->
             { None, List(<<D1a>>), List(<<D2, D1b>>) }

\* a Date header "Tue, 02 Jan 2024 10:MM:30 GMT" whose minute is mi
DateHeader(mi) ==
    << "T", "u", "e", ",", " ", "0", "2", " ", "J", "a", "n", " ",
       "2", "0", "2", "4", " ", "1", "0", ":",
       DigitChars[(mi \div 10) + 1], DigitChars[(mi % 10) + 1],
       ":", "3", "0", " ", "G", "M", "T" >>

\* headers["Date"][20:22] (main.py:82)
get_min_from_headers(headers) == SubSeq(headers, 21, 22)

(* ------------------------- get_history, pure parts --------------------- *)
\* the keyword arguments of the retrieval call (main.py:120-126)
GetterKwargs(frame) ==
    [startTime |-> Timestamp(frame.start_time_date),
     endTime   |-> Timestamp(frame.end_time_date)]

\* the call made for one window by get_full_history (main.py:64)
FirstCall(w, d) ==
    [start_time_date |-> w.start, end_time_date |-> w.end,
     delay |-> d, retrying |-> FALSE]

\* the recursive call of the except branch (main.py:134-140)
RetryCallNotFlagged(frame) ==
    [start_time_date |-> frame.start_time_date,
     end_time_date |-> frame.end_time_date,
     delay |-> frame.delay, retrying |-> FALSE]

RetryCallShifted(frame) ==
    [start_time_date |-> frame.end_time_date,
     end_time_date |-> frame.end_time_date,
     delay |-> frame.delay, retrying |-> TRUE]

RetryCall(frame) ==
    [start_time_date |-> frame.start_time_date,
     end_time_date |-> frame.end_time_date,
     delay |-> frame.delay, retrying |-> TRUE]

\* what the try/except does with an exception of the retrieval call
\* (main.py:127-142): only BinanceAPIException is caught
ExceptDecisionAlwaysRetry(e, is_retrying) ==
    IF e.cls = "BinanceAPIException" THEN "resync" ELSE "propagate"

ExceptDecision(e, is_retrying) ==
    IF e.cls = "BinanceAPIException"
    THEN (IF is_retrying = FALSE THEN "resync" ELSE "raise")
    ELSE "propagate"

\* the loop test of wait_server_minute_rollover (main.py:95)
KeepWaitingNegated(getter_min, response_min) == getter_min # response_min

KeepWaitingAlways(getter_min, response_min) == TRUE

KeepWaiting(getter_min, response_min) == getter_min = response_min

\* `if delay: time.sleep(delay)` (main.py:143-144) runs in every frame that
\* returns: the number of throttle sleeps done while the stack unwinds
RECURSIVE Sleeps(_)
Sleeps(frames) ==
    IF frames = << >> THEN 0
    ELSE (IF Head(frames).delay # 0 THEN 1 ELSE 0) + Sleeps(Tail(frames))

(* -------------------- get_full_history, pure parts --------------------- *)
\* `if response` (main.py:68): None, {} and [] are falsy
Truthy(r) ==
    CASE r.shape = "none" -> FALSE
      [] r.shape = "dict" -> r.key # ""
      [] r.shape = "list" -> Len(r.items) > 0

\* the unwrappers main passes (main.py:40, 378, 382)
UnwrapOk(u, r) ==
    CASE u = "identity" -> r.shape = "list"
      [] OTHER -> r.shape = "dict" /\ r.key = u

Unwrap(u, r) == r.items

\* an unwrapper applied to a response of another shape raises
UnwrapRaises(resps, u) ==
    \E i \in 1..Len(resps) : Truthy(resps[i]) /\ ~UnwrapOk(u, resps[i])

\* full_history (main.py:67-69)
RECURSIVE FullHistoryReversed(_, _)
FullHistoryReversed(resps, u) ==
    IF resps = << >> THEN << >>
    ELSE FullHistoryReversed(Tail(resps), u)
         \o (IF Truthy(Head(resps)) THEN Unwrap(u, Head(resps)) ELSE << >>)

RECURSIVE FullHistory(_, _)
FullHistory(resps, u) ==
    IF resps = << >> THEN << >>
    ELSE (IF Truthy(Head(resps)) THEN Unwrap(u, Head(resps)) ELSE << >>)
         \o FullHistory(Tail(resps), u)

\* the arguments of main's three get_full_history calls (main.py:374-385)
MainCall(k, fd) ==
    CASE k = 1 -> [getter |-> "get_fiat_withdraw_history", from_date |-> fd,
                   unwrapper |-> "data", month_interval |-> 1, delay |-> 0]
      [] k = 2 -> [getter |-> "get_convert_trade_history", from_date |-> fd,
                   unwrapper |-> "list", month_interval |-> 1, delay |-> 0]
      [] k = 3 -> [getter |-> "get_deposit_history", from_date |-> fd,
                   unwrapper |-> "identity", month_interval |-> 1, delay |-> 0]

(* ------------------------------- state --------------------------------- *)
VARIABLES
    argv,            \* the --from-date argument, NoArg when absent
    now,             \* datetime.now()
    run,             \* which run of the program this is
    pc,              \* position in main
    kind,            \* which of main's three get_full_history calls is running
    call,            \* the arguments of that get_full_history call
    date_intervals,  \* its boundary list
    win,             \* index of the window being fetched
    fpc,             \* position in get_full_history / get_history
    stack,           \* the get_history calls in progress, innermost last
    getter_date_min, \* local of wait_server_minute_rollover
    responses,       \* responses of the windows fetched so far
    histories,       \* main's fiat_withdrawals, convert_trades, deposits
    error,           \* the exception that ended the run, NoError if none
    serverMin,       \* the provider's clock minute
    client_headers,  \* client.response.headers
    inflight,        \* requests sent and not yet answered
    conn,            \* whether the database connection is open
    tables,          \* the three tables, each the sequence of its rows
    served,          \* the provider's data: what it answers for each window
    winCalls,        \* history: retrieval calls made for each window of this call
    callArgs,        \* history: kwargs of the retrieval calls for this window
    failures,        \* history: exceptions raised by them
    resyncs,         \* history: resync waits entered for this window
    throttles,       \* history: throttle sleeps done for this window
    netUsed,         \* history: a request was sent in this run
    prevTables,      \* history: the tables when the previous run completed
    latest           \* history: per table, the record last handed over per key

fetchVars == << date_intervals, win, fpc, stack, getter_date_min, responses,
                inflight, winCalls, callArgs, failures, resyncs, throttles >>
mainVars == << argv, now, run, pc, kind, call, histories, error >>
envVars == << serverMin, client_headers, served, netUsed >>
dbVars == << conn, tables, prevTables, latest >>
vars == << fetchVars, mainVars, envVars, dbVars >>

NoCall == [getter |-> "", from_date |-> NoArg, unwrapper |-> "",
           month_interval |-> 1, delay |-> 0]
Unset == [shape |-> "unset"]
EmptyTables == [k \in 1..3 |-> << >>]
NoTables == [k \in 1..3 |-> << [none |-> TRUE] >>]

Args == { NoArg, FormatYM(2024, 2), FormatYM(2023, 12), FormatYM(2023, 1),
          <<"2", "0", "2", "4">>, <<"2", "0", "2", "4", "-", "1", "3">> }
Nows == { DateTime(2024, 2, 15) }

Errors == { [cls |-> "BinanceAPIException", status_code |-> 429],
            [cls |-> "BinanceAPIException", status_code |-> 400],
            [cls |-> "BinanceRequestException", status_code |-> 0] }

Raised(e, n) == [cls |-> e.cls, status_code |-> e.status_code, serial |-> n]

Init ==
    /\ argv \in Args
    /\ now \in Nows
    /\ run = 1
    /\ pc = "start"
    /\ kind = 0
    /\ call = NoCall
    /\ date_intervals = << >>
    /\ win = 0
    /\ fpc = "idle"
    /\ stack = << >>
    /\ getter_date_min = << >>
    /\ responses = << >>
    /\ histories = [k \in 1..3 |-> << >>]
    /\ error = NoError
    /\ serverMin \in 0..(NumMinutes - 1)
    /\ client_headers = << >>
    /\ inflight = 0
    /\ conn = FALSE
    /\ tables = EmptyTables
    /\ served = [k \in 1..3 |-> << >>]
    /\ winCalls = << >>
    /\ callArgs = << >>
    /\ failures = << >>
    /\ resyncs = 0
    /\ throttles = 0
    /\ netUsed = FALSE
    /\ prevTables = NoTables
    /\ latest = [k \in 1..3 |-> {}]

(* ------------------------------ storage -------------------------------- *)
RECURSIVE DigitsVal(_)
DigitsVal(ds) ==
    IF ds = << >> THEN 0
    ELSE DigitsVal(SubSeq(ds, 1, Len(ds) - 1)) * 10 + DigitVal(ds[Len(ds)])

DotAt(s) == IF \E i \in 1..Len(s) : s[i] = "." 
            THEN CHOOSE i \in 1..Len(s) : s[i] = "." ELSE Len(s) + 1

\* float(text) for plain decimals with at most two fraction digits, in hundredths
FloatOk(s) ==
    /\ Len(s) > 0
    /\ \A i \in 1..Len(s) : IsDigit(s[i]) \/ (s[i] = "." /\ i = DotAt(s))
    /\ Len(s) - DotAt(s) <= 2
    /\ \E i \in 1..Len(s) : IsDigit(s[i])

Float(s) ==
    LET d    == DotAt(s)
        frac == SubSeq(s, d + 1, Len(s))
    IN  DigitsVal(SubSeq(s, 1, d - 1)) * 100
        + (IF Len(frac) = 0 THEN 0
           ELSE IF Len(frac) = 1 THEN DigitVal(frac[1]) * 10
           ELSE DigitsVal(frac))

\* one INSERT OR REPLACE on a table whose primary key is column pk: the
\* conflicting row is deleted and the new row is inserted
InsertOrIgnore(table, row, pk) ==
    IF \E i \in 1..Len(table) : table[i][pk] = row[pk] THEN table
    ELSE Append(table, row)

InsertPlain(table, row, pk) == Append(table, row)

InsertOrReplace(table, row, pk) ==
    Append(SelectSeq(table, LAMBDA r : r[pk] # row[pk]), row)

\* cursor.executemany: the statement once per parameter tuple, in order
RECURSIVE ExecuteMany(_, _, _)
ExecuteMany(table, rows, pk) ==
    IF rows = << >> THEN table
    ELSE ExecuteMany(InsertOrReplace(table, Head(rows), pk), Tail(rows), pk)

\* the parameter tuples built by the three insert functions
FiatRow(item) ==
    [orderNo |-> item.orderNo, amount |-> Float(item.amount), status |-> item.status]

TradeRow(item) ==
    [quoteId |-> item.quoteId, fromAmount |-> Float(item.fromAmount),
     orderStatus |-> item.orderStatus]

DepositRow(item) ==
    [id |-> item.id, amount |-> Float(item.amount), status |-> item.status]

insert_fiat_withdrawals(table, data) ==
    ExecuteMany(table, [i \in 1..Len(data) |-> FiatRow(data[i])], "orderNo")

insert_convert_trades(table, data) ==
    ExecuteMany(table, [i \in 1..Len(data) |-> TradeRow(data[i])], "quoteId")

insert_deposits(table, data) ==
    ExecuteMany(table, [i \in 1..Len(data) |-> DepositRow(data[i])], "id")

\* float() raises on a text that is not a number, before anything is executed
InsertRaises(k, data) ==
    \E i \in 1..Len(data) :
        ~FloatOk(IF k = 2 THEN data[i].fromAmount ELSE data[i].amount)

\* history: the records most recently handed over, one per identity key
KeyOf(k, item) == IF k = 1 THEN item.orderNo ELSE IF k = 2 THEN item.quoteId ELSE item.id

LatestItems(prev, data, k) ==
    { r \in prev : \A i \in 1..Len(data) : KeyOf(k, data[i]) # KeyOf(k, r) }
    \cup { data[i] : i \in { j \in 1..Len(data) :
                \A l \in (j + 1)..Len(data) : KeyOf(k, data[l]) # KeyOf(k, data[j]) } }

(* ------------------------------ actions -------------------------------- *)
NumWindows == Len(Windows(date_intervals))
frame == stack[Len(stack)]

\* the statement of main that follows its k-th get_full_history call
\* (main.py:374-387): the next collection, or init_database after the third
AfterCollectEager(k) == "init_db"

AfterCollect(k) == IF k < 3 THEN "collect" ELSE "init_db"

\* an exception leaves get_full_history and main: the process ends
PropagateKeepGoing(e) ==
    /\ error' = e
    /\ pc' = pc
    /\ fpc' = "assemble"

PropagateAndRetry(e) ==
    /\ error' = e
    /\ pc' = IF fpc = "await_status" THEN pc ELSE "failed"
    /\ fpc' = IF fpc = "await_status" THEN "call" ELSE "idle"

Propagate(e) ==
    /\ error' = e
    /\ pc' = "failed"
    /\ fpc' = "idle"

\* main.py:369-379: the arguments are read and the first collection is called
MainStart ==
    /\ pc = "start"
    /\ LET from_date == IF argv # NoArg THEN argv
                        ELSE FormatDefaultFromDate(now.y)
       IN  call' = MainCall(1, from_date)
    /\ kind' = 1
    /\ pc' = "collect"
    /\ fpc' = "plan"
    /\ UNCHANGED << date_intervals, win, stack, getter_date_min, responses,
                    inflight, winCalls, callArgs, failures, resyncs, throttles >>
    /\ UNCHANGED << argv, now, run, histories, error >>
    /\ UNCHANGED << envVars, dbVars >>

\* main.py:56-62: the planner
Plan ==
    /\ pc = "collect"
    /\ fpc = "plan"
    /\ LET parsed == Strptime(call.from_date)
           di == DateIntervals(parsed.dt, now, call.month_interval)
           n  == Len(Windows(di))
       IN  IF ~parsed.ok
           THEN /\ Propagate([cls |-> "ValueError", status_code |-> 0, serial |-> 0])
                /\ UNCHANGED << date_intervals, win, stack, responses, winCalls, served >>
           ELSE /\ date_intervals' = di
                /\ responses' = << >>
                /\ winCalls' = [i \in 1..n |-> 0]
                /\ served' = IF Len(served[kind]) = n THEN served
                             ELSE [served EXCEPT ![kind] = [i \in 1..n |-> Unset]]
                /\ IF n = 0
                   THEN win' = 0 /\ stack' = << >> /\ fpc' = "assemble"
                   ELSE /\ win' = 1
                        /\ stack' = << FirstCall(Windows(di)[1], call.delay) >>
                        /\ fpc' = "call"
                /\ UNCHANGED << pc, error >>
    /\ UNCHANGED << getter_date_min, inflight, callArgs, failures, resyncs, throttles >>
    /\ UNCHANGED << argv, now, run, kind, call, histories >>
    /\ UNCHANGED << serverMin, client_headers, netUsed, dbVars >>

\* main.py:123-126: the retrieval request is sent
RetrieveSend ==
    /\ pc = "collect"
    /\ fpc = "call"
    /\ fpc' = "await_getter"
    /\ inflight' = inflight + 1
    /\ netUsed' = TRUE
    /\ winCalls' = [winCalls EXCEPT ![win] = @ + 1]
    /\ IF winCalls[win] = 0
       THEN /\ callArgs' = << GetterKwargs(frame) >>
            /\ failures' = << >>
            /\ resyncs' = 0
            /\ throttles' = 0
       ELSE /\ callArgs' = Append(callArgs, GetterKwargs(frame))
            /\ UNCHANGED << failures, resyncs, throttles >>
    /\ UNCHANGED << date_intervals, win, stack, getter_date_min, responses >>
    /\ UNCHANGED << mainVars, serverMin, client_headers, served, dbVars >>

\* main.py:123-145: the retrieval call returns a response, or raises
RetrieveReturn ==
    /\ pc = "collect"
    /\ fpc = "await_getter"
    /\ inflight' = inflight - 1
    /\ client_headers' = DateHeader(serverMin)
    /\ \/ \E r \in ProviderResponses(call.getter) :
            /\ served[kind][win] \in {Unset, r}
            /\ served' = [served EXCEPT ![kind][win] = r]
            /\ throttles' = throttles + Sleeps(stack)
            /\ responses' = Append(responses, r)
            /\ IF win < NumWindows
               THEN /\ win' = win + 1
                    /\ stack' = << FirstCall(Windows(date_intervals)[win + 1],
                                             call.delay) >>
                    /\ fpc' = "call"
               ELSE /\ fpc' = "assemble"
                    /\ UNCHANGED << win, stack >>
            /\ UNCHANGED << getter_date_min, failures, resyncs, pc, error >>
       \/ \E e \in Errors :
            LET raised == Raised(e, winCalls[win])
            IN  /\ failures' = Append(failures, raised)
                /\ IF ExceptDecision(e, frame.retrying) = "resync"
                   THEN /\ getter_date_min' = get_min_from_headers(client_headers')
                        /\ resyncs' = resyncs + 1
                        /\ fpc' = "poll"
                        /\ UNCHANGED << pc, error >>
                   ELSE /\ Propagate(raised)
                        /\ UNCHANGED << getter_date_min, resyncs >>
                /\ UNCHANGED << win, stack, responses, throttles, served >>
    /\ UNCHANGED << date_intervals, winCalls, callArgs >>
    /\ UNCHANGED << argv, now, run, kind, call, histories >>
    /\ UNCHANGED << serverMin, netUsed, dbVars >>

\* main.py:93 and 97: the status request is sent
PollSend ==
    /\ pc = "collect"
    /\ fpc = "poll"
    /\ fpc' = "await_status"
    /\ inflight' = inflight + 1
    /\ netUsed' = TRUE
    /\ UNCHANGED << date_intervals, win, stack, getter_date_min, responses,
                    winCalls, callArgs, failures, resyncs, throttles >>
    /\ UNCHANGED << mainVars, serverMin, client_headers, served, dbVars >>

\* main.py:94-98 and 134-140: the status call returns; the loop goes on
\* or get_history calls itself
PollReturn ==
    /\ pc = "collect"
    /\ fpc = "await_status"
    /\ inflight' = inflight - 1
    /\ \/ /\ client_headers' = DateHeader(serverMin)
          /\ IF KeepWaiting(getter_date_min, get_min_from_headers(client_headers'))
             THEN fpc' = "poll" /\ UNCHANGED << stack, getter_date_min >>
             ELSE /\ fpc' = "call"
                  /\ stack' = Append(stack, RetryCall(frame))
                  /\ getter_date_min' = << >>
          /\ UNCHANGED << pc, error >>
       \/ \E e \in Errors :
            /\ Propagate(Raised(e, 0))
            /\ UNCHANGED << client_headers, stack, getter_date_min >>
    /\ UNCHANGED << date_intervals, win, responses,
                    winCalls, callArgs, failures, resyncs, throttles >>
    /\ UNCHANGED << argv, now, run, kind, call, histories >>
    /\ UNCHANGED << serverMin, served, netUsed, dbVars >>

\* the provider's clock moves to the next minute
Tick ==
    /\ pc = "collect"
    /\ fpc \in {"await_getter", "await_status"}
    /\ serverMin' = (serverMin + 1) % NumMinutes
    /\ UNCHANGED << fetchVars, mainVars, client_headers, served, netUsed, dbVars >>

\* main.py:67-70 and the next statement of main (381-387)
Assemble ==
    /\ pc = "collect"
    /\ fpc = "assemble"
    /\ IF UnwrapRaises(responses, call.unwrapper)
       THEN /\ Propagate([cls |-> "KeyError", status_code |-> 0, serial |-> 0])
            /\ UNCHANGED << kind, call, histories >>
       ELSE /\ histories' = [histories EXCEPT
                                ![kind] = FullHistory(responses, call.unwrapper)]
            /\ error' = error
            /\ IF AfterCollect(kind) = "collect"
               THEN /\ kind' = kind + 1
                    /\ call' = MainCall(kind + 1, call.from_date)
                    /\ fpc' = "plan"
                    /\ pc' = pc
               ELSE /\ pc' = "init_db"
                    /\ fpc' = "idle"
                    /\ UNCHANGED << kind, call >>
    /\ UNCHANGED << date_intervals, win, stack, getter_date_min, responses,
                    inflight, winCalls, callArgs, failures, resyncs, throttles >>
    /\ UNCHANGED << argv, now, run, envVars, dbVars >>

\* main.py:387, 348-359: connect, CREATE TABLE IF NOT EXISTS
InitDatabase ==
    /\ pc = "init_db"
    /\ conn' = TRUE
    /\ pc' = "insert_fiat"
    /\ UNCHANGED << tables, prevTables, latest, fetchVars, envVars >>
    /\ UNCHANGED << argv, now, run, kind, call, histories, error >>

\* an insert function raised: the finally clause closes the connection
InsertFailed ==
    /\ conn' = FALSE
    /\ error' = [cls |-> "ValueError", status_code |-> 0, serial |-> 0]
    /\ pc' = "failed"
    /\ UNCHANGED << tables, latest >>

\* main.py:391
InsertFiat ==
    /\ pc = "insert_fiat"
    /\ IF InsertRaises(1, histories[1]) THEN InsertFailed
       ELSE /\ tables' = [tables EXCEPT
                             ![1] = insert_fiat_withdrawals(@, histories[1])]
            /\ latest' = [latest EXCEPT ![1] = LatestItems(@, histories[1], 1)]
            /\ pc' = "insert_convert"
            /\ UNCHANGED << conn, error >>
    /\ UNCHANGED << prevTables, fetchVars, envVars >>
    /\ UNCHANGED << argv, now, run, kind, call, histories >>

\* main.py:392
InsertConvert ==
    /\ pc = "insert_convert"
    /\ IF InsertRaises(2, histories[2]) THEN InsertFailed
       ELSE /\ tables' = [tables EXCEPT
                             ![2] = insert_convert_trades(@, histories[2])]
            /\ latest' = [latest EXCEPT ![2] = LatestItems(@, histories[2], 2)]
            /\ pc' = "insert_deposits"
            /\ UNCHANGED << conn, error >>
    /\ UNCHANGED << prevTables, fetchVars, envVars >>
    /\ UNCHANGED << argv, now, run, kind, call, histories >>

\* main.py:393-410: the last insert, the statistics, the connection is closed
InsertDeposits ==
    /\ pc = "insert_deposits"
    /\ IF InsertRaises(3, histories[3]) THEN InsertFailed
       ELSE /\ tables' = [tables EXCEPT
                             ![3] = insert_deposits(@, histories[3])]
            /\ latest' = [latest EXCEPT ![3] = LatestItems(@, histories[3], 3)]
            /\ pc' = "done"
            /\ conn' = FALSE
            /\ UNCHANGED error
    /\ UNCHANGED << prevTables, fetchVars, envVars >>
    /\ UNCHANGED << argv, now, run, kind, call, histories >>

\* the operator runs the program again, with the same arguments and clock
Rerun ==
    /\ pc \in {"done", "failed"}
    /\ run < MaxRuns
    /\ run' = run + 1
    /\ pc' = "start"
    /\ prevTables' = IF pc = "done" THEN tables ELSE prevTables
    /\ kind' = 0
    /\ call' = NoCall
    /\ date_intervals' = << >>
    /\ win' = 0
    /\ fpc' = "idle"
    /\ stack' = << >>
    /\ getter_date_min' = << >>
    /\ responses' = << >>
    /\ histories' = [k \in 1..3 |-> << >>]
    /\ error' = NoError
    /\ client_headers' = << >>
    /\ inflight' = 0
    /\ winCalls' = << >>
    /\ callArgs' = << >>
    /\ failures' = << >>
    /\ resyncs' = 0
    /\ throttles' = 0
    /\ netUsed' = FALSE
    /\ UNCHANGED << argv, now, serverMin, served, conn, tables, latest >>

Next ==
    \/ MainStart
    \/ Plan
    \/ RetrieveSend
    \/ RetrieveReturn
    \/ PollSend
    \/ PollReturn
    \/ Tick
    \/ Assemble
    \/ InitDatabase
    \/ InsertFiat
    \/ InsertConvert
    \/ InsertDeposits
    \/ Rerun

Spec == Init /\ [][Next]_vars

(* ---------------- the planner alone, over many inputs ------------------ *)
PlanYears == 2023..2025
PlanFromDates == { FormatYM(y, m) : y \in PlanYears, m \in 1..12 }
PlanNows == { DateTime(2024, m, d) : m \in 1..12, d \in {1, 15, 28} }
             \cup { DateTime(2024, m, DaysInMonth(2024, m)) : m \in 1..12 }

\* get_full_history is called with any from_date and month_interval
InitPlan ==
    /\ argv = NoArg
    /\ now \in PlanNows
    /\ run = 1
    /\ pc = "collect"
    /\ kind = 3
    /\ \E fd \in PlanFromDates, mi \in 1..MaxInterval :
         call = [getter |-> "get_deposit_history", from_date |-> fd,
                 unwrapper |-> "identity", month_interval |-> mi, delay |-> 0]
    /\ date_intervals = << >>
    /\ win = 0
    /\ fpc = "plan"
    /\ stack = << >>
    /\ getter_date_min = << >>
    /\ responses = << >>
    /\ histories = [k \in 1..3 |-> << >>]
    /\ error = NoError
    /\ serverMin = 0
    /\ client_headers = << >>
    /\ inflight = 0
    /\ conn = FALSE
    /\ tables = EmptyTables
    /\ served = [k \in 1..3 |-> << >>]
    /\ winCalls = << >>
    /\ callArgs = << >>
    /\ failures = << >>
    /\ resyncs = 0
    /\ throttles = 0
    /\ netUsed = FALSE
    /\ prevTables = NoTables
    /\ latest = [k \in 1..3 |-> {}]

NextPlan == Plan

SpecPlan == InitPlan /\ [][NextPlan]_vars

(* ------- one get_full_history call with any arguments, delay set ------- *)
FetchFromDates == { FormatYM(2024, 1), FormatYM(2024, 2), FormatYM(2023, 12),
                    FormatYM(2024, 5), FormatYM(2025, 1), <<"2", "0", "2", "4">> }
Delays == {0, 2}

InitFetch ==
    /\ argv = NoArg
    /\ now \in Nows
    /\ run = 1
    /\ pc = "collect"
    /\ kind = 3
    /\ \E k \in 1..3, fd \in FetchFromDates, mi \in 1..MaxInterval, d \in Delays :
         call = [MainCall(k, fd) EXCEPT !.month_interval = mi, !.delay = d]
    /\ date_intervals = << >>
    /\ win = 0
    /\ fpc = "plan"
    /\ stack = << >>
    /\ getter_date_min = << >>
    /\ responses = << >>
    /\ histories = [k \in 1..3 |-> << >>]
    /\ error = NoError
    /\ serverMin = 0
    /\ client_headers = << >>
    /\ inflight = 0
    /\ conn = FALSE
    /\ tables = EmptyTables
    /\ served = [k \in 1..3 |-> << >>]
    /\ winCalls = << >>
    /\ callArgs = << >>
    /\ failures = << >>
    /\ resyncs = 0
    /\ throttles = 0
    /\ netUsed = FALSE
    /\ prevTables = NoTables
    /\ latest = [k \in 1..3 |-> {}]

NextFetch ==
    \/ Plan
    \/ RetrieveSend
    \/ RetrieveReturn
    \/ PollSend
    \/ PollReturn
    \/ Tick
    \/ Assemble

SpecFetch == InitFetch /\ [][NextFetch]_vars

\* a status response that reports another minute than the failed call's
PollRollover == PollReturn /\ fpc' = "call"

\* every step of the program is eventually taken, and the provider's minute,
\* which keeps changing, is eventually seen changed by a status call
SpecFetchFair ==
    /\ InitFetch
    /\ [][NextFetch]_vars
    /\ WF_vars(Plan)
    /\ WF_vars(RetrieveSend)
    /\ WF_vars(RetrieveReturn)
    /\ WF_vars(PollSend)
    /\ WF_vars(PollReturn)
    /\ WF_vars(Assemble)
    /\ SF_vars(Tick)
    /\ SF_vars(PollRollover)

(* ------------- the storage handoffs alone, in any sequence ------------- *)
WBad == [orderNo |-> "W2", amount |-> <<"n", "a">>, status |-> "Failed"]
TBad == [quoteId |-> "Q2", fromAmount |-> << >>, orderStatus |-> "FAIL"]
DBad == [id |-> "D2", amount |-> <<"1", ".", ".">>, status |-> 6]

RECURSIVE SeqsUpTo(_, _)
SeqsUpTo(S, n) ==
    IF n = 0 THEN { << >> }
    ELSE SeqsUpTo(S, n - 1)
         \cup { Append(q, x) : q \in { t \in SeqsUpTo(S, n - 1) : Len(t) = n - 1 },
                               x \in S }

Batches(k) ==
    SeqsUpTo(CASE k = 1 -> {W1a, W1b, W2, WBad}
               [] k = 2 -> {T1a, T1b, T2, TBad}
               [] k = 3 -> {D1a, D1b, D2, DBad}, MaxBatch)

InitStore ==
    /\ argv = NoArg
    /\ now \in Nows
    /\ run = 1
    /\ pc = "store"
    /\ kind = 0
    /\ call = NoCall
    /\ date_intervals = << >>
    /\ win = 0
    /\ fpc = "idle"
    /\ stack = << >>
    /\ getter_date_min = << >>
    /\ responses = << >>
    /\ histories = [k \in 1..3 |-> << >>]
    /\ error = NoError
    /\ serverMin = 0
    /\ client_headers = << >>
    /\ inflight = 0
    /\ conn = TRUE
    /\ tables = EmptyTables
    /\ served = [k \in 1..3 |-> << >>]
    /\ winCalls = << >>
    /\ callArgs = << >>
    /\ failures = << >>
    /\ resyncs = 0
    /\ throttles = 0
    /\ netUsed = FALSE
    /\ prevTables = NoTables
    /\ latest = [k \in 1..3 |-> {}]

\* insert_fiat_withdrawals(conn, data) for any batch (main.py:224-256)
StoreFiat ==
    /\ pc = "store"
    /\ \E data \in Batches(1) :
         IF InsertRaises(1, data) THEN UNCHANGED << tables, latest >>
         ELSE /\ tables' = [tables EXCEPT ![1] = insert_fiat_withdrawals(@, data)]
              /\ latest' = [latest EXCEPT ![1] = LatestItems(@, data, 1)]
    /\ UNCHANGED << conn, prevTables, fetchVars, mainVars, envVars >>

\* insert_convert_trades(conn, data) for any batch (main.py:259-292)
StoreConvert ==
    /\ pc = "store"
    /\ \E data \in Batches(2) :
         IF InsertRaises(2, data) THEN UNCHANGED << tables, latest >>
         ELSE /\ tables' = [tables EXCEPT ![2] = insert_convert_trades(@, data)]
              /\ latest' = [latest EXCEPT ![2] = LatestItems(@, data, 2)]
    /\ UNCHANGED << conn, prevTables, fetchVars, mainVars, envVars >>

\* insert_deposits(conn, data) for any batch (main.py:295-329)
StoreDeposits ==
    /\ pc = "store"
    /\ \E data \in Batches(3) :
         IF InsertRaises(3, data) THEN UNCHANGED << tables, latest >>
         ELSE /\ tables' = [tables EXCEPT ![3] = insert_deposits(@, data)]
              /\ latest' = [latest EXCEPT ![3] = LatestItems(@, data, 3)]
    /\ UNCHANGED << conn, prevTables, fetchVars, mainVars, envVars >>

NextStore ==
    \/ StoreFiat
    \/ StoreConvert
    \/ StoreDeposits

SpecStore == InitStore /\ [][NextStore]_vars

(* ------------------------------- claims -------------------------------- *)
RECURSIVE SumSeq(_)
SumSeq(q) == IF q = << >> THEN 0 ELSE Head(q) + SumSeq(Tail(q))

\* the fetch of window Len(responses) has just returned its response
JustReturned ==
    /\ pc = "collect"
    /\ Len(responses) >= 1
    /\ \/ fpc = "assemble"
       \/ fpc = "call" /\ winCalls[win] = 0

\* C1: the retrieval operation is called at most twice for a window (one
\* call in Normal, at most one in Retrying); every window starts in Normal;
\* a failure in Retrying ends the run with no further resync wait or call;
\* over N windows at most 2*N retrieval calls are made.
C1_AtMostOneRetryPerWindow ==
    /\ \A w \in 1..Len(winCalls) : winCalls[w] <= 2
    /\ SumSeq(winCalls) <= 2 * Len(winCalls)
    /\ Len(stack) <= 2
    /\ resyncs <= 1
    /\ (fpc = "call" /\ winCalls[win] = 0) => ~frame.retrying
    /\ (fpc \in {"call", "await_getter"} /\ winCalls[win] >= 1 /\ Len(stack) = 2)
           => frame.retrying
    /\ (Len(failures) >= 1 /\ fpc \in {"poll", "await_status"}) => Len(failures) = 1
    /\ Len(failures) >= 2 =>
           pc = "failed" /\ fpc = "idle" /\ inflight = 0 /\ resyncs = 1

C1_Witness ==
    /\ fpc = "assemble"
    /\ winCalls = <<2, 2>>

\* C2: a window whose first retrieval call failed with a rate-limit error
\* and whose second call answered returns that answer, after exactly one
\* resync wait and exactly two retrieval calls, both with the window's
\* startTime and endTime.
C2_RetryReturnsSecondAnswer ==
    (JustReturned /\ Len(failures) = 1 /\ failures[1].status_code = 429) =>
        LET w == Len(responses)
        IN  /\ responses[w] = served[kind][w]
            /\ resyncs = 1
            /\ winCalls[w] = 2
            /\ Len(callArgs) = 2
            /\ callArgs[1] = callArgs[2]
            /\ callArgs[1].startTime = Timestamp(date_intervals[w])
            /\ callArgs[1].endTime = Timestamp(date_intervals[w + 1])

C2_Witness ==
    /\ JustReturned
    /\ Len(failures) = 1
    /\ failures[1].status_code = 429
    /\ Truthy(responses[Len(responses)])

Planned == pc = "collect" /\ fpc \in {"call", "assemble"} /\ date_intervals # << >>
StartTime == Strptime(call.from_date).dt
FirstOfMonth(dt) == DateTime(dt.y, dt.m, 1)

\* C4: for a from_date not after now the windows are at least one, each
\* non-empty, contiguous and ascending, the first starting at from_date
\* and the last ending at now + 1 month.
C4_WindowsCoverRange ==
    (Planned /\ ~Before(now, StartTime)) =>
        LET ws == Windows(date_intervals)
        IN  /\ Len(ws) >= 1
            /\ ws[1].start = StartTime
            /\ ws[Len(ws)].end = AddMonths(now, 1)
            /\ Before(now, ws[Len(ws)].end)
            /\ \A i \in 1..Len(ws) : Before(ws[i].start, ws[i].end)
            /\ \A i \in 1..(Len(ws) - 1) : ws[i].end = ws[i + 1].start

\* C5: for a from_date not after now the last stepped boundary B satisfies
\* B <= first day of now's month < B + month_interval months, and there is
\* one window per boundary but the last; from 2024-01 with now 2024-03-15
\* and month_interval 1 the windows start 2024-01-01, 2024-02-01, 2024-03-01
\* and the last ends 2024-04-15.
C5_SteppingReachesNowMonth ==
    (Planned /\ ~Before(now, StartTime)) =>
        LET n == Len(date_intervals)
            B == date_intervals[n - 1]
        IN  /\ n >= 2
            /\ ~Before(FirstOfMonth(now), B)
            /\ Before(FirstOfMonth(now), AddMonths(B, call.month_interval))
            /\ Len(Windows(date_intervals)) = n - 1
            /\ (call.from_date = FormatYM(2024, 1) /\ now = DateTime(2024, 3, 15)
                /\ call.month_interval = 1)
                   => date_intervals = << DateTime(2024, 1, 1), DateTime(2024, 2, 1),
                                          DateTime(2024, 3, 1), DateTime(2024, 4, 15) >>

\* the text is a four-digit year, a dash and a month 1..12
IsYearMonth(t) ==
    /\ Len(t) \in {6, 7}
    /\ \A i \in (1..Len(t)) \ {5} : IsDigit(t[i])
    /\ t[5] = "-"
    /\ DigitsVal(SubSeq(t, 6, Len(t))) \in 1..12

\* C6: with a from_date that is not a year-month the run fails with the
\* date-format error; no retrieval or status request is ever sent, the
\* database is not opened and nothing is stored.
C6_BadDateFailsBeforeNetwork ==
    (argv # NoArg /\ ~IsYearMonth(argv)) =>
        /\ ~netUsed
        /\ inflight = 0
        /\ ~conn
        /\ tables = EmptyTables
        /\ pc \in {"start", "collect", "failed"}
        /\ pc = "collect" => (kind = 1 /\ fpc = "plan")
        /\ pc = "failed" => error.cls = "ValueError"

C6_Witness ==
    /\ argv = <<"2", "0", "2", "4">>
    /\ pc = "failed"
    /\ error.cls = "ValueError"

\* a response that carries data: not None, not an empty dict or list
Present(r) == r \notin {None, EmptyDict, List(<< >>)}

RECURSIVE ConcatPresent(_)
ConcatPresent(rs) ==
    IF rs = << >> THEN << >>
    ELSE LET l == rs[Len(rs)]
         IN  ConcatPresent(SubSeq(rs, 1, Len(rs) - 1))
             \o (IF Present(l) THEN l.items ELSE << >>)

Collected(k) ==
    \/ pc = "collect" /\ k < kind
    \/ pc \in {"init_db", "insert_fiat", "insert_convert", "insert_deposits", "done"}

\* C7: the list a collection returns is the concatenation, in window order,
\* of the records of the windows whose response carries data; absent
\* responses add nothing and never make the unwrapper fail; nothing is
\* removed, reordered or deduplicated.
C7_HistoryIsConcatenation ==
    /\ \A k \in 1..3 : Collected(k) => histories[k] = ConcatPresent(served[k])
    /\ pc = "failed" => error.cls # "KeyError"

C7_Witness ==
    /\ pc = "init_db"
    /\ histories[1] = <<W1a, W1b, W2>>
    /\ histories[2] = <<T1a, T2, T1b, T1a, T2, T1b>>
    /\ served[3][1] = None
    /\ histories[3] = <<D1a>>

\* C8: the windows are fetched one after the other in ascending order:
\* a retrieval call for a window is made only when every earlier window
\* has returned, while a window is being fetched (call, resync wait,
\* retry) no later window has been called, every planned window has been
\* called when the collection completes, and at most one request is in
\* flight at any time.
C8_SequentialFetch ==
    /\ inflight \in {0, 1}
    /\ inflight = 1 <=> fpc \in {"await_getter", "await_status"}
    /\ (pc = "collect" /\ fpc \in {"call", "await_getter", "poll", "await_status"}) =>
           /\ Len(responses) = win - 1
           /\ \A w \in 1..Len(winCalls) : (w < win => winCalls[w] >= 1)
                                          /\ (w > win => winCalls[w] = 0)
    /\ (pc = "collect" /\ fpc = "assemble") =>
           /\ Len(responses) = Len(date_intervals) - 1
           /\ Len(winCalls) = Len(date_intervals) - 1
           /\ \A w \in 1..Len(winCalls) : winCalls[w] >= 1

C8_Witness ==
    /\ pc = "collect"
    /\ fpc = "await_status"
    /\ win = 1
    /\ Len(winCalls) = 2
    /\ inflight = 1

\* C9: after any sequence of handoffs every table has at most one row per
\* identity key, and the rows are exactly the normalised records most
\* recently handed over for each key.
C9_OneRowPerKeyLatestWins ==
    /\ \A i, j \in 1..Len(tables[1]) :
           tables[1][i].orderNo = tables[1][j].orderNo => i = j
    /\ \A i, j \in 1..Len(tables[2]) :
           tables[2][i].quoteId = tables[2][j].quoteId => i = j
    /\ \A i, j \in 1..Len(tables[3]) :
           tables[3][i].id = tables[3][j].id => i = j
    /\ { tables[1][i] : i \in 1..Len(tables[1]) }
           = { [orderNo |-> r.orderNo, amount |-> Float(r.amount), status |-> r.status]
               : r \in latest[1] }
    /\ { tables[2][i] : i \in 1..Len(tables[2]) }
           = { [quoteId |-> r.quoteId, fromAmount |-> Float(r.fromAmount),
                orderStatus |-> r.orderStatus] : r \in latest[2] }
    /\ { tables[3][i] : i \in 1..Len(tables[3]) }
           = { [id |-> r.id, amount |-> Float(r.amount), status |-> r.status]
               : r \in latest[3] }

C9_Witness ==
    /\ pc = "store"
    /\ tables[1] = << [orderNo |-> "W2", amount |-> 700, status |-> "Successful"],
                      [orderNo |-> "W1", amount |-> 9950, status |-> "Successful"] >>
    /\ W1b \in latest[1]
    /\ Len(tables[2]) = 2
    /\ Len(tables[3]) = 2

Rows(t) == { t[i] : i \in 1..Len(t) }

\* C10: when a run completes after an earlier completed run, with the
\* provider answering the same records, every table has the same rows and
\* the same row count as after the earlier run, and no key twice.
C10_RerunIsIdempotent ==
    (pc = "done" /\ prevTables # NoTables) =>
        \A k \in 1..3 :
            /\ Rows(tables[k]) = Rows(prevTables[k])
            /\ Len(tables[k]) = Len(prevTables[k])
            /\ Cardinality(Rows(tables[k])) = Len(tables[k])
            /\ \A r \in latest[k] :
                   Cardinality({ i \in 1..Len(tables[k]) :
                                   KeyOf(k, tables[k][i]) = KeyOf(k, r) }) = 1

C10_Witness ==
    /\ pc = "done"
    /\ run = 2
    /\ prevTables # NoTables
    /\ Len(tables[1]) = 2
    /\ Len(tables[2]) = 2
    /\ Len(tables[3]) = 2

FetchError == error.cls \in {"BinanceAPIException", "BinanceRequestException"}

\* C11: a first failure of the retrieval call whose status code is not 429
\* ends the run with that failure, with no resync wait and no second call.
C11_OnlyRateLimitRetried ==
    (Len(failures) >= 1 /\ failures[1].status_code # 429) =>
        /\ pc = "failed"
        /\ error = failures[1]
        /\ resyncs = 0
        /\ winCalls[win] = 1

\* the two characters of a minute in a Date header
MinuteText(mi) == << DigitChars[(mi \div 10) + 1], DigitChars[(mi % 10) + 1] >>

\* C12: the minute the wait compares with is the minute of the failed
\* call's response; it does not change while the wait lasts; the retry is
\* started only by a status response whose minute differs from it; a status
\* response with the same minute leads to another poll, with no retrieval
\* call and no retry frame.
C12_RetryOnlyAfterMinuteChange ==
    [][ /\ (fpc = "await_getter" /\ fpc' = "poll")
            => getter_date_min' = MinuteText(serverMin)
        /\ (fpc \in {"poll", "await_status"} /\ fpc' \in {"poll", "await_status"})
            => getter_date_min' = getter_date_min /\ winCalls' = winCalls
        /\ (fpc = "await_status" /\ fpc' = "call")
            => /\ MinuteText(serverMin) # getter_date_min
               /\ winCalls[win] = 1
               /\ Len(stack') = 2
        /\ (fpc = "await_status" /\ fpc' # fpc /\ pc' = "collect"
            /\ MinuteText(serverMin) = getter_date_min)
            => fpc' = "poll" /\ stack' = stack
      ]_vars

C12_Witness ==
    /\ pc = "collect"
    /\ fpc = "call"
    /\ Len(stack) = 2
    /\ winCalls[win] = 1
    /\ Len(failures) = 1
    /\ client_headers = DateHeader(serverMin)

\* C13: with a delay set, a window that returns a response has slept the
\* throttle exactly once, after a first attempt or after a retry; a window
\* that ends in a failure has not slept it.
C13_ThrottleOncePerResponse ==
    call.delay # 0 =>
        /\ JustReturned => throttles = 1
        /\ (pc = "failed" /\ FetchError) => throttles = 0

\* C14: with every program step eventually taken and a changed minute
\* eventually seen by a status call, the collection always ends, with its
\* result or with a failure; and the wait has no other way out than a status
\* response with another minute or a failure of the status call.
C14_WaitEndsOnlyOnRollover ==
    /\ <>(pc # "collect")
    /\ [][ (fpc \in {"poll", "await_status"} /\ fpc' \notin {"poll", "await_status"})
               => \/ pc' = "failed"
                  \/ fpc' = "call" /\ MinuteText(serverMin) # getter_date_min ]_vars

C14_Witness ==
    /\ pc = "init_db"
    /\ Len(winCalls) = 2
    /\ winCalls[1] = 2
    /\ winCalls[2] = 2

RunStartTables == IF prevTables = NoTables THEN EmptyTables ELSE prevTables

CollectionFailed ==
    /\ pc = "failed"
    /\ \/ error.cls \in {"BinanceAPIException", "BinanceRequestException", "KeyError"}
       \/ error.cls = "ValueError" /\ date_intervals = << >>

\* C15: the database is opened and rows are written only after all three
\* collections have returned; while collecting, and after a collection has
\* failed, the connection is closed and the tables are those of the start
\* of the run.
C15_CollectBeforeStore ==
    /\ pc \in {"start", "collect"} => ~conn /\ tables = RunStartTables
    /\ CollectionFailed => ~conn /\ tables = RunStartTables
    /\ conn => pc \in {"insert_fiat", "insert_convert", "insert_deposits"}
    /\ pc \in {"init_db", "insert_fiat", "insert_convert", "insert_deposits", "done"}
           => /\ kind = 3
              /\ fpc = "idle"
              /\ \A k \in 1..3 : \A w \in 1..Len(served[k]) : served[k][w] # Unset

C15_Witness ==
    /\ CollectionFailed
    /\ run = 2
    /\ kind = 3
    /\ histories[1] # << >>
    /\ tables[1] # << >>
    /\ tables = prevTables

\* C16: when the fetch of a window fails, the collection ends there: no
\* later window has been or will be called, the responses of the earlier
\* windows are not unwrapped and no list is returned.
C16_FailureStopsCollection ==
    FetchError =>
        /\ pc = "failed"
        /\ fpc = "idle"
        /\ inflight = 0
        /\ Len(responses) = win - 1
        /\ \A w \in 1..Len(winCalls) : w > win => winCalls[w] = 0
        /\ \A k \in kind..3 : histories[k] = << >>

C16_Witness ==
    /\ pc = "failed"
    /\ FetchError
    /\ win = 2
    /\ Truthy(responses[1])
    /\ histories[kind] = << >>

\* C17: every retrieval call is made with startTime < endTime, and the
\* window starts never decrease.
C17_CallsHaveOrderedTimes ==
    /\ \A i \in 1..Len(callArgs) : callArgs[i].startTime < callArgs[i].endTime
    /\ \A i \in 1..(Len(date_intervals) - 2) :
           ~Before(date_intervals[i + 1], date_intervals[i])

StatusFailed == FetchError /\ error.serial = 0

====
